---- MODULE Spec2Model ----
(***************************************************************************)
(* Model of the modal editing state machine of examples/vim.rs: Vim::     *)
(* transition, the event loop of main, constrain_cursor_for_normal_mode,  *)
(* vim_paste_below and vim_paste_above, acting on a TextArea.             *)
(*                                                                         *)
(* Rows and columns are 0-based as in the source; a line is a sequence of *)
(* one-character strings, so line[col + 1] is the character at column col.*)
(***************************************************************************)
EXTENDS Integers, Sequences, FiniteSets, TLC

(***************************************************************************)
(* Bounds                                                                  *)
(***************************************************************************)
\* number of key events read by the event loop in one behaviour
MaxSteps == 2

\* rows of the text area inside its border, as stored by the last draw
ViewHeight == 2

(***************************************************************************)
(* Small helpers                                                           *)
(***************************************************************************)
Min(a, b) == IF a <= b THEN a ELSE b

Max(a, b) == IF a >= b THEN a ELSE b

SetMin(S) == CHOOSE x \in S : \A y \in S : x <= y

SetMax(S) == CHOOSE x \in S : \A y \in S : x >= y

\* Option<usize>::None of the word searches
NoCol == -1

\* Option<(usize, usize)>::None of selection_start
NoSel == <<>>

\* lexicographic order of (row, col) pairs
PosLess(p, q) == p[1] < q[1] \/ (p[1] = q[1] /\ p[2] < q[2])

\* s[from..to) by 0-based columns
Slice(s, from, to) == IF to <= from THEN <<>> ELSE SubSeq(s, from + 1, to)

\* the line at 0-based row
LineAt(lines, row) == lines[row + 1]

LineLen(lines, row) == Len(lines[row + 1])

\* lines[from..to) by 0-based rows
Rows(lines, from, to) == IF to <= from THEN <<>> ELSE SubSeq(lines, from + 1, to)

\* lines with the line at 0-based row replaced
SetLine(lines, row, l) == [lines EXCEPT ![row + 1] = l]

(***************************************************************************)
(* word.rs: character kinds and word searches                             *)
(***************************************************************************)
PunctChars == {"^", "$", ".", ","}

CharKind(c) == IF c = " " THEN "Space" ELSE IF c \in PunctChars THEN "Punct" ELSE "Other"

KindAt(line, col) == CharKind(line[col + 1])

find_word_start_forward(line, start_col) ==
  LET hits == {col \in (start_col + 1)..(Len(line) - 1) :
                 /\ KindAt(line, col) # "Space"
                 /\ KindAt(line, col - 1) # KindAt(line, col)}
  IN IF start_col >= Len(line) \/ hits = {} THEN NoCol ELSE SetMin(hits)

find_word_inclusive_end_forward(line, start_col) ==
  LET hits == {col \in (start_col + 1)..(Len(line) - 1) :
                 /\ KindAt(line, col - 1) # "Space"
                 /\ KindAt(line, col) # KindAt(line, col - 1)}
  IN IF start_col >= Len(line) THEN NoCol
     ELSE IF hits # {} THEN SetMin(hits) - 1
     ELSE IF KindAt(line, Len(line) - 1) # "Space" THEN Len(line) - 1
     ELSE NoCol

find_word_start_backward(line, start_col) ==
  LET hits == {col \in 1..(start_col - 1) :
                 /\ KindAt(line, col) # "Space"
                 /\ KindAt(line, col - 1) # KindAt(line, col)}
  IN IF start_col = 0 \/ Len(line) = 0 THEN NoCol
     ELSE IF hits # {} THEN SetMax(hits)
     ELSE IF KindAt(line, 0) # "Space" THEN 0
     ELSE NoCol

(***************************************************************************)
(* TextArea: a record                                                      *)
(*   lines   the buffer, a non-empty sequence of lines                     *)
(*   cursor  <<row, col>>                                                  *)
(*   sel     selection_start: NoSel or <<row, col>>                        *)
(*   yank    the register as a sequence of lines: one line is a Piece,    *)
(*           two or more a Chunk                                           *)
(*   edits   the edit history, each edit a record of the buffer and       *)
(*           cursor before and after it                                    *)
(*   hidx    the history index                                             *)
(*   top     first row of the viewport                                     *)
(***************************************************************************)
\* the element of a one-element set: The({e(x) : x \in {v}}) is e with x bound
\* to the value of v
The(S) == CHOOSE x \in S : TRUE

fit_col(col, line) == Min(col, Len(line))

Row(ta) == ta.cursor[1]

Col(ta) == ta.cursor[2]

CurLine(ta) == ta.lines[ta.cursor[1] + 1]

(***************************************************************************)
(* CursorMove::next_cursor, one operator per variant; NoSel stands for    *)
(* None (the cursor does not move)                                         *)
(***************************************************************************)
Forward(ta) ==
  IF Col(ta) >= Len(CurLine(ta))
  THEN (IF Row(ta) + 1 < Len(ta.lines) THEN <<Row(ta) + 1, 0>> ELSE NoSel)
  ELSE <<Row(ta), Col(ta) + 1>>

Back(ta) ==
  IF Col(ta) = 0
  THEN (IF Row(ta) = 0 THEN NoSel ELSE <<Row(ta) - 1, LineLen(ta.lines, Row(ta) - 1)>>)
  ELSE <<Row(ta), Col(ta) - 1>>

Up(ta) ==
  IF Row(ta) = 0 THEN NoSel
  ELSE <<Row(ta) - 1, fit_col(Col(ta), LineAt(ta.lines, Row(ta) - 1))>>

Down(ta) ==
  IF Row(ta) + 1 >= Len(ta.lines) THEN NoSel
  ELSE <<Row(ta) + 1, fit_col(Col(ta), LineAt(ta.lines, Row(ta) + 1))>>

\* CursorMove::Head (Head itself is the head of a sequence)
LineHead(ta) == <<Row(ta), 0>>

End(ta) == <<Row(ta), Len(CurLine(ta))>>

Top(ta) == <<0, fit_col(Col(ta), LineAt(ta.lines, 0))>>

Bottom(ta) == <<Len(ta.lines) - 1, fit_col(Col(ta), LineAt(ta.lines, Len(ta.lines) - 1))>>

\* the loop of WordEnd over the following lines: the first word end on a
\* line after row, else the end of the last line
word_end_below(lines, row) ==
  The({IF later = {} THEN <<Len(lines) - 1, LineLen(lines, Len(lines) - 1)>>
       ELSE The({<<r, find_word_inclusive_end_forward(LineAt(lines, r), 0)>> :
                   r \in {SetMin(later)}}) :
         later \in {{r \in (row + 1)..(Len(lines) - 1) :
                       find_word_inclusive_end_forward(LineAt(lines, r), 0) # NoCol}}})

WordEnd(ta) ==
  The({IF c # NoCol THEN <<Row(ta), c>> ELSE word_end_below(ta.lines, Row(ta)) :
         c \in {find_word_inclusive_end_forward(CurLine(ta), Col(ta) + 1)}})

WordForward(ta) ==
  The({IF c # NoCol THEN <<Row(ta), c>>
       ELSE IF Row(ta) + 1 < Len(ta.lines) THEN <<Row(ta) + 1, 0>>
       ELSE <<Row(ta), Len(CurLine(ta))>> :
         c \in {find_word_start_forward(CurLine(ta), Col(ta))}})

WordBack(ta) ==
  The({IF c # NoCol THEN <<Row(ta), c>>
       ELSE IF Row(ta) > 0 THEN <<Row(ta) - 1, LineLen(ta.lines, Row(ta) - 1)>>
       ELSE <<Row(ta), 0>> :
         c \in {find_word_start_backward(CurLine(ta), Col(ta))}})

InViewport(ta) ==
  The({<<r, fit_col(Col(ta), LineAt(ta.lines, r))>> :
         r \in {Min(Min(Max(Row(ta), ta.top), Max(ta.top, ta.top + ViewHeight - 1)),
                    Len(ta.lines) - 1)}})

Jump(r, c, ta) ==
  The({<<row, fit_col(c, LineAt(ta.lines, row))>> : row \in {Min(r, Len(ta.lines) - 1)}})

start_selection(ta) == [ta EXCEPT !.sel = ta.cursor]

cancel_selection(ta) == [ta EXCEPT !.sel = NoSel]

\* TextArea::move_cursor to the cursor c that next_cursor gave: the selection
\* is kept iff one is active
move_cursor(c, ta) == IF c = NoSel THEN ta ELSE [ta EXCEPT !.cursor = c]

\* move_cursor_with_shift(m, false), used by the default key mappings
move_cursor_noshift(c, ta) ==
  IF c = NoSel THEN ta ELSE [ta EXCEPT !.cursor = c, !.sel = NoSel]

\* History::push with the edit that led from before to the text area after
push_history(before, cursor_before, after) ==
  [after EXCEPT !.edits = Append(SubSeq(after.edits, 1, after.hidx),
                                 [lb |-> before, cb |-> cursor_before,
                                  la |-> after.lines, ca |-> after.cursor]),
                !.hidx = after.hidx + 1]

\* lines joined by the line separator
RECURSIVE join(_)
join(ls) == IF Len(ls) = 1 THEN ls[1] ELSE ls[1] \o <<"\n">> \o join(Tail(ls))

\* the register as text
yank_text(ta) == join(ta.yank)

\* text.contains('\n')
contains_newline(text) == \E i \in 1..Len(text) : text[i] = "\n"

\* the ordered (start, end) of the selection, taken by take_selection_positions
SelStart(ta) == IF PosLess(ta.sel, ta.cursor) THEN ta.sel ELSE ta.cursor

SelEnd(ta) == IF PosLess(ta.sel, ta.cursor) THEN ta.cursor ELSE ta.sel

HasRange(ta) == ta.sel # NoSel /\ ta.sel # ta.cursor

\* the text between two positions, as a sequence of lines
RangeText(lines, s, e) ==
  IF s[1] = e[1] THEN <<Slice(LineAt(lines, s[1]), s[2], e[2])>>
  ELSE <<Slice(LineAt(lines, s[1]), s[2], LineLen(lines, s[1]))>>
       \o Rows(lines, s[1] + 1, e[1])
       \o <<Slice(LineAt(lines, e[1]), 0, e[2])>>

\* the buffer with the text between two positions removed
RangeRemoved(lines, s, e) ==
  Rows(lines, 0, s[1])
  \o <<Slice(LineAt(lines, s[1]), 0, s[2])
       \o Slice(LineAt(lines, e[1]), e[2], LineLen(lines, e[1]))>>
  \o Rows(lines, e[1] + 1, Len(lines))

\* TextArea::copy
copy(ta) ==
  IF HasRange(ta)
  THEN [ta EXCEPT !.yank = RangeText(ta.lines, SelStart(ta), SelEnd(ta)), !.sel = NoSel]
  ELSE cancel_selection(ta)

\* TextArea::delete_range(start, end, should_yank), the selection taken
delete_range(s, e, should_yank, ta) ==
  push_history(ta.lines, e,
               [ta EXCEPT !.lines = RangeRemoved(ta.lines, s, e),
                          !.cursor = s,
                          !.sel = NoSel,
                          !.yank = IF should_yank THEN RangeText(ta.lines, s, e)
                                   ELSE ta.yank])

\* TextArea::delete_selection(should_yank)
delete_selection(should_yank, ta) ==
  IF HasRange(ta)
  THEN delete_range(SelStart(ta), SelEnd(ta), should_yank, ta)
  ELSE cancel_selection(ta)

\* TextArea::cut
cut(ta) == delete_selection(TRUE, ta)

\* the cursor's line with chunk inserted at the cursor
InsertedLines(chunk, ta) ==
  IF Len(chunk) = 1
  THEN <<Slice(CurLine(ta), 0, Col(ta)) \o chunk[1]
         \o Slice(CurLine(ta), Col(ta), Len(CurLine(ta)))>>
  ELSE <<Slice(CurLine(ta), 0, Col(ta)) \o chunk[1]>>
       \o SubSeq(chunk, 2, Len(chunk) - 1)
       \o <<chunk[Len(chunk)] \o Slice(CurLine(ta), Col(ta), Len(CurLine(ta)))>>

\* insert_piece / insert_chunk at the cursor
insert_lines(chunk, ta) ==
  IF Len(chunk) = 1 /\ chunk[1] = <<>> THEN ta
  ELSE push_history(ta.lines, ta.cursor,
         [ta EXCEPT !.lines = Rows(ta.lines, 0, Row(ta)) \o InsertedLines(chunk, ta)
                              \o Rows(ta.lines, Row(ta) + 1, Len(ta.lines)),
                    !.cursor = IF Len(chunk) = 1
                               THEN <<Row(ta), Col(ta) + Len(chunk[1])>>
                               ELSE <<Row(ta) + Len(chunk) - 1, Len(chunk[Len(chunk)])>>])

\* TextArea::paste
paste(ta) == The({insert_lines(t.yank, t) : t \in {delete_selection(FALSE, ta)}})

\* TextArea::insert_char for a character other than a line break
insert_char(c, ta) == The({insert_lines(<<<<c>>>>, t) : t \in {delete_selection(FALSE, ta)}})

\* the line break of insert_newline, the selection deleted
split_line(ta) ==
  push_history(ta.lines, ta.cursor,
    [ta EXCEPT !.lines = Rows(ta.lines, 0, Row(ta))
                         \o <<Slice(CurLine(ta), 0, Col(ta)),
                              Slice(CurLine(ta), Col(ta), Len(CurLine(ta)))>>
                         \o Rows(ta.lines, Row(ta) + 1, Len(ta.lines)),
               !.cursor = <<Row(ta) + 1, 0>>])

\* TextArea::insert_newline
insert_newline(ta) == The({split_line(t) : t \in {delete_selection(FALSE, ta)}})

\* delete_piece(col, chars) of the cursor's line, the cursor going to col
delete_piece(col, chars, ta) ==
  IF chars = 0 THEN ta
  ELSE push_history(ta.lines, ta.cursor,
         [ta EXCEPT !.lines = SetLine(ta.lines, Row(ta),
                                Slice(CurLine(ta), 0, col)
                                \o Slice(CurLine(ta), col + chars, Len(CurLine(ta)))),
                    !.cursor = <<Row(ta), col>>,
                    !.yank = <<Slice(CurLine(ta), col, col + chars)>>])

\* TextArea::delete_newline: join the cursor's line to the previous one
delete_newline(ta) ==
  IF Row(ta) = 0 THEN ta
  ELSE push_history(ta.lines, ta.cursor,
         [ta EXCEPT !.lines = Rows(ta.lines, 0, Row(ta) - 1)
                              \o <<LineAt(ta.lines, Row(ta) - 1) \o CurLine(ta)>>
                              \o Rows(ta.lines, Row(ta) + 1, Len(ta.lines)),
                    !.cursor = <<Row(ta) - 1, LineLen(ta.lines, Row(ta) - 1)>>])

\* delete_char with no selection: the character before the cursor, or the
\* line break when the cursor is at column 0
delete_before_cursor(ta) ==
  IF Col(ta) = 0 THEN delete_newline(ta)
  ELSE push_history(ta.lines, ta.cursor,
         [ta EXCEPT !.lines = SetLine(ta.lines, Row(ta),
                                Slice(CurLine(ta), 0, Col(ta) - 1)
                                \o Slice(CurLine(ta), Col(ta), Len(CurLine(ta)))),
                    !.cursor = <<Row(ta), Col(ta) - 1>>])

\* TextArea::delete_char
delete_char(ta) ==
  IF HasRange(ta) THEN delete_selection(FALSE, ta)
  ELSE delete_before_cursor(cancel_selection(ta))

\* delete_next_char with no selection: forward, then delete_char if the
\* cursor moved
delete_after_cursor(ta) ==
  IF Forward(ta) = NoSel THEN ta
  ELSE delete_before_cursor(move_cursor_noshift(Forward(ta), ta))

\* TextArea::delete_next_char
delete_next_char(ta) ==
  IF HasRange(ta) THEN delete_selection(FALSE, ta)
  ELSE delete_after_cursor(cancel_selection(ta))

\* TextArea::delete_line_by_end
delete_line_by_end(ta) ==
  IF HasRange(ta) THEN delete_selection(FALSE, ta)
  ELSE IF Col(ta) < Len(CurLine(ta))
  THEN delete_piece(Col(ta), Len(CurLine(ta)) - Col(ta), cancel_selection(ta))
  ELSE delete_after_cursor(cancel_selection(ta))

\* TextArea::undo
undo(ta) ==
  IF ta.hidx = 0 THEN ta
  ELSE [ta EXCEPT !.lines = ta.edits[ta.hidx].lb,
                  !.cursor = ta.edits[ta.hidx].cb,
                  !.sel = NoSel,
                  !.hidx = ta.hidx - 1]

\* TextArea::redo
redo(ta) ==
  IF ta.hidx = Len(ta.edits) THEN ta
  ELSE [ta EXCEPT !.lines = ta.edits[ta.hidx + 1].la,
                  !.cursor = ta.edits[ta.hidx + 1].ca,
                  !.sel = NoSel,
                  !.hidx = ta.hidx + 1]

\* TextArea::scroll by a number of rows (negative: up), then CursorMove::InViewport
scroll(rows, ta) ==
  The({[t EXCEPT !.cursor = InViewport(t)] : t \in {[ta EXCEPT !.top = Max(0, ta.top + rows)]}})

\* the widget's render: the viewport follows the cursor (next_scroll_top)
render(ta) ==
  [ta EXCEPT !.top = IF Row(ta) < ta.top THEN Row(ta)
                     ELSE IF ta.top + ViewHeight <= Row(ta) THEN Row(ta) + 1 - ViewHeight
                     ELSE ta.top]

(***************************************************************************)
(* Key events: Input {key, ctrl, alt, shift}                               *)
(***************************************************************************)
Plain(k) == [key |-> k, ctrl |-> FALSE, alt |-> FALSE, shift |-> FALSE]

Ctrl(k) == [key |-> k, ctrl |-> TRUE, alt |-> FALSE, shift |-> FALSE]

Alt(k) == [key |-> k, ctrl |-> FALSE, alt |-> TRUE, shift |-> FALSE]

\* Input::default()
NoInput == Plain("Null")

\* Key::Char(_) as opposed to the named keys
NamedKeys == {"Null", "Esc", "Enter", "Backspace"}

IsChar(k) == k \notin NamedKeys

\* TextArea::input: the default key mappings, for the keys of this model
input_default(input, ta) ==
  CASE (input.key = "m" /\ input.ctrl /\ ~input.alt) \/ input.key = "Enter" ->
         insert_newline(ta)
    [] IsChar(input.key) /\ ~input.ctrl /\ ~input.alt -> insert_char(input.key, ta)
    [] \/ input.key = "h" /\ input.ctrl /\ ~input.alt
       \/ input.key = "Backspace" /\ ~input.ctrl /\ ~input.alt -> delete_char(ta)
    [] input.key = "d" /\ input.ctrl /\ ~input.alt -> delete_next_char(ta)
    [] input.key = "f" /\ input.ctrl /\ ~input.alt -> move_cursor_noshift(Forward(ta), ta)
    [] input.key = "b" /\ input.ctrl /\ ~input.alt -> move_cursor_noshift(Back(ta), ta)
    [] input.key = "e" /\ input.ctrl /\ ~input.alt -> move_cursor_noshift(End(ta), ta)
    [] input.key = "u" /\ input.ctrl /\ ~input.alt -> undo(ta)
    [] input.key = "r" /\ input.ctrl /\ ~input.alt -> redo(ta)
    [] input.key = "y" /\ input.ctrl /\ ~input.alt -> paste(ta)
    [] OTHER -> ta

(***************************************************************************)
(* examples/vim.rs                                                         *)
(***************************************************************************)
\* enum Mode
Normal == <<"Normal">>

Insert == <<"Insert">>

Visual == <<"Visual">>

Operator(c) == <<"Operator", c>>

IsOperator(mode) == mode[1] = "Operator"

\* enum Transition
Nop == <<"Nop">>

ToMode(mode) == <<"Mode", mode>>

Pending(input) == <<"Pending", input>>

Quit == <<"Quit">>

\* `row as u16`, `col as u16`
AsU16(n) == n % 65536

\* constrained with the column allowed to rest one past the end of the line
constrained_past_end(ta) ==
  The({<<row, Min(Col(ta), LineLen(ta.lines, row))>> :
         row \in {Min(Row(ta), Len(ta.lines) - 1)}})

\* the (row, col) constrain_cursor_for_normal_mode computes
constrained(ta) ==
  The({<<row, Min(Col(ta), IF LineAt(ta.lines, row) = <<>> THEN 0
                           ELSE LineLen(ta.lines, row) - 1)>> :
         row \in {Min(Row(ta), IF Len(ta.lines) = 1 /\ ta.lines[1] = <<>> THEN 0
                               ELSE Len(ta.lines) - 1)}})

constrain_cursor_for_normal_mode(ta) ==
  The({IF rc # ta.cursor
       THEN move_cursor(Jump(AsU16(rc[1]), AsU16(rc[2]), ta), ta)
       ELSE ta :
         rc \in {constrained(ta)}})

\* vim_paste_below cutting the selection before the paste
vim_paste_below_cuts(ta) ==
  IF contains_newline(yank_text(ta))
  THEN paste(cut(move_cursor(End(ta), ta)))
  ELSE paste(cut(move_cursor(Forward(ta), ta)))

vim_paste_below(ta) ==
  IF contains_newline(yank_text(ta))
  THEN paste(move_cursor(End(ta), ta))
  ELSE paste(move_cursor(Forward(ta), ta))

\* vim_paste_above pasting as vim_paste_below does
vim_paste_above_as_below(ta) == vim_paste_below(ta)

vim_paste_above(ta) ==
  IF contains_newline(yank_text(ta))
  THEN paste(move_cursor(LineHead(ta), ta))
  ELSE paste(ta)

\* the e arm: WordEnd, and in Operator mode one more step forward
word_end_motion(mode, ta) ==
  The({IF IsOperator(mode) THEN move_cursor(Forward(t), t) ELSE t :
         t \in {move_cursor(WordEnd(ta), ta)}})

\* select_to_next_line with the two branches after Down exchanged
select_to_next_line_swapped(t) ==
  The({IF t.cursor = down.cursor
       THEN move_cursor(LineHead(down), down)
       ELSE move_cursor(End(down), down) :
         down \in {move_cursor(Down(t), t)}})

\* the second half of the yy, dd, cc arm, t being the text area after Head
\* and start_selection
select_to_next_line(t) ==
  The({IF t.cursor = down.cursor
       THEN move_cursor(End(down), down)
       ELSE move_cursor(LineHead(down), down) :
         down \in {move_cursor(Down(t), t)}})

\* the yy, dd, cc arm: select the entire line
doubled_operator(ta) ==
  select_to_next_line(start_selection(move_cursor(LineHead(ta), ta)))

\* the O arm: a new line above the cursor's line
open_line_above(ta) ==
  The({move_cursor(Up(t), t) : t \in {insert_newline(move_cursor(LineHead(ta), ta))}})

\* select_line without the call of start_selection
select_line_unanchored(ta) ==
  The({move_cursor(End(t), t) : t \in {move_cursor(LineHead(ta), ta)}})

\* the V arm: the whole line selected
select_line(ta) ==
  The({move_cursor(End(t), t) : t \in {start_selection(move_cursor(LineHead(ta), ta))}})

\* the result of an arm: a transition and the text area
Return(t, ta) == [t |-> t, ta |-> ta]

\* leave_visual without cancelling the selection
leave_visual_keep_selection(ta) == Return(ToMode(Normal), ta)

\* the Esc | v arm of Visual mode
leave_visual(ta) == Return(ToMode(Normal), cancel_selection(ta))

\* an arm that does not return: the match on self.mode follows
Fallthrough == <<"Fallthrough">>

\* Moved without the constraint on the cursor
moved_unconstrained(ta) == [t |-> Fallthrough, ta |-> ta]

\* a motion or scroll arm: the move, then the constraint
Moved(ta) == [t |-> Fallthrough, ta |-> constrain_cursor_for_normal_mode(ta)]

\* an arm that edits, constrains the cursor and returns Mode(Normal)
Edited(ta) == [t |-> ToMode(Normal), ta |-> constrain_cursor_for_normal_mode(ta)]

\* gg_matches with the pending key not examined
gg_matches_any_pending(pending, input) == input.key = "g" /\ ~input.ctrl

\* the pattern and guard of the gg arm
gg_matches(pending, input) ==
  input.key = "g" /\ ~input.ctrl /\ pending.key = "g" /\ ~pending.ctrl

\* enters_operator with the guard on the mode left out
enters_operator_any_mode(mode, input) ==
  input.key \in {"y", "d", "c"} /\ ~input.ctrl

\* the pattern and guard of the arm that enters Operator mode
enters_operator(mode, input) ==
  input.key \in {"y", "d", "c"} /\ ~input.ctrl /\ mode = Normal

\* the match on the input in the Normal | Visual | Operator arm
command(mode, pending, input, ta) ==
  CASE input.key = "h" -> Moved(move_cursor(Back(ta), ta))
    [] input.key = "j" -> Moved(move_cursor(Down(ta), ta))
    [] input.key = "k" -> Moved(move_cursor(Up(ta), ta))
    [] input.key = "l" -> Moved(move_cursor(Forward(ta), ta))
    [] input.key = "w" -> Moved(move_cursor(WordForward(ta), ta))
    [] input.key = "e" /\ ~input.ctrl -> Moved(word_end_motion(mode, ta))
    [] input.key = "b" /\ ~input.ctrl -> Moved(move_cursor(WordBack(ta), ta))
    [] input.key = "^" -> Moved(move_cursor(LineHead(ta), ta))
    [] input.key = "$" -> Moved(move_cursor(End(ta), ta))
    [] input.key = "D" -> Edited(delete_line_by_end(ta))
    [] input.key = "C" -> Return(ToMode(Insert), cancel_selection(delete_line_by_end(ta)))
    [] input.key = "p" -> Edited(vim_paste_below(ta))
    [] input.key = "P" -> Edited(vim_paste_above(ta))
    [] input.key = "u" /\ ~input.ctrl -> Edited(undo(ta))
    [] input.key = "r" /\ input.ctrl -> Edited(redo(ta))
    [] input.key = "x" -> Edited(delete_next_char(ta))
    [] input.key = "i" -> Return(ToMode(Insert), cancel_selection(ta))
    [] input.key = "a" ->
         Return(ToMode(Insert), move_cursor_noshift(Forward(ta), cancel_selection(ta)))
    [] input.key = "A" ->
         Return(ToMode(Insert), move_cursor_noshift(End(ta), cancel_selection(ta)))
    [] input.key = "o" -> Return(ToMode(Insert), insert_newline(move_cursor(End(ta), ta)))
    [] input.key = "O" -> Return(ToMode(Insert), open_line_above(ta))
    [] input.key = "I" ->
         Return(ToMode(Insert), move_cursor_noshift(LineHead(ta), cancel_selection(ta)))
    [] input.key = "q" -> Return(Quit, ta)
    [] input.key = "e" /\ input.ctrl -> Moved(scroll(1, ta))
    [] input.key = "y" /\ input.ctrl -> Moved(scroll(-1, ta))
    [] input.key = "d" /\ input.ctrl -> Moved(scroll(ViewHeight \div 2, ta))
    [] input.key = "u" /\ input.ctrl -> Moved(scroll(-(ViewHeight \div 2), ta))
    [] input.key = "f" /\ input.ctrl -> Moved(scroll(ViewHeight, ta))
    [] input.key = "b" /\ input.ctrl -> Moved(scroll(-ViewHeight, ta))
    [] input.key = "v" /\ ~input.ctrl /\ mode = Normal ->
         Return(ToMode(Visual), start_selection(ta))
    [] input.key = "V" /\ ~input.ctrl /\ mode = Normal ->
         Return(ToMode(Visual), select_line(ta))
    [] (input.key = "Esc" \/ (input.key = "v" /\ ~input.ctrl)) /\ mode = Visual ->
         leave_visual(ta)
    [] gg_matches(pending, input) -> Moved(move_cursor(Top(ta), ta))
    [] input.key = "G" /\ ~input.ctrl -> Moved(move_cursor(Bottom(ta), ta))
    [] IsChar(input.key) /\ ~input.ctrl /\ mode = Operator(input.key) ->
         Return(Fallthrough, doubled_operator(ta))
    [] enters_operator(mode, input) ->
         Return(ToMode(Operator(input.key)), start_selection(ta))
    [] input.key = "y" /\ ~input.ctrl /\ mode = Visual -> Return(ToMode(Normal), copy(ta))
    [] input.key = "d" /\ ~input.ctrl /\ mode = Visual -> Return(ToMode(Normal), cut(ta))
    [] input.key = "c" /\ ~input.ctrl /\ mode = Visual -> Return(ToMode(Insert), cut(ta))
    [] OTHER -> Return(Pending(input), ta)

\* pending_operator with the d arm copying where it should cut
pending_operator_delete_copies(mode, ta) ==
  CASE mode = Operator("y") -> Return(ToMode(Normal), constrain_cursor_for_normal_mode(copy(ta)))
    [] mode = Operator("d") -> Return(ToMode(Normal), constrain_cursor_for_normal_mode(copy(ta)))
    [] mode = Operator("c") -> Return(ToMode(Insert), cut(ta))
    [] OTHER -> Return(Nop, ta)

\* pending_operator with the y arm leaving the mode as it is
pending_operator_yank_stays(mode, ta) ==
  CASE mode = Operator("y") -> Return(Nop, constrain_cursor_for_normal_mode(copy(ta)))
    [] mode = Operator("d") -> Return(ToMode(Normal), constrain_cursor_for_normal_mode(cut(ta)))
    [] mode = Operator("c") -> Return(ToMode(Insert), cut(ta))
    [] OTHER -> Return(Nop, ta)

\* the match on self.mode after an arm that did not return
pending_operator(mode, ta) ==
  CASE mode = Operator("y") -> Return(ToMode(Normal), constrain_cursor_for_normal_mode(copy(ta)))
    [] mode = Operator("d") -> Return(ToMode(Normal), constrain_cursor_for_normal_mode(cut(ta)))
    [] mode = Operator("c") -> Return(ToMode(Insert), cut(ta))
    [] OTHER -> Return(Nop, ta)

\* the Normal | Visual | Operator arm of Vim::transition
command_mode(mode, pending, input, ta) ==
  The({IF r.t = Fallthrough THEN pending_operator(mode, r.ta) ELSE r :
         r \in {command(mode, pending, input, ta)}})

\* insert_mode with Esc alone leaving Insert mode
insert_mode_escape_only(input, ta) ==
  IF input.key = "Esc"
  THEN Return(ToMode(Normal), ta)
  ELSE Return(ToMode(Insert), input_default(input, ta))

\* the Insert arm of Vim::transition
insert_mode(input, ta) ==
  IF input.key = "Esc" \/ (input.key = "c" /\ input.ctrl)
  THEN Return(ToMode(Normal), ta)
  ELSE Return(ToMode(Insert), input_default(input, ta))

\* Vim::transition
transition(mode, pending, input, ta) ==
  IF input.key = "Null" THEN Return(Nop, ta)
  ELSE IF mode = Insert THEN insert_mode(input, ta)
  ELSE command_mode(mode, pending, input, ta)

\* main_loop with Transition::Quit handled as Transition::Nop
main_loop_quit_ignored(mode, pending, r) ==
  CASE r.t[1] = "Mode" /\ r.t[2] # mode ->
         [mode |-> r.t[2], pending |-> NoInput, running |-> TRUE,
          ta |-> IF r.t[2] = Normal THEN constrain_cursor_for_normal_mode(r.ta) ELSE r.ta]
    [] r.t[1] = "Pending" ->
         [mode |-> mode, pending |-> r.t[2], running |-> TRUE, ta |-> r.ta]
    [] OTHER ->
         [mode |-> mode, pending |-> pending, running |-> TRUE, ta |-> r.ta]

\* main_loop with Transition::Pending handled as Transition::Nop
main_loop_drops_pending(mode, pending, r) ==
  CASE r.t[1] = "Mode" /\ r.t[2] # mode ->
         [mode |-> r.t[2], pending |-> NoInput, running |-> TRUE,
          ta |-> IF r.t[2] = Normal THEN constrain_cursor_for_normal_mode(r.ta) ELSE r.ta]
    [] r.t[1] = "Quit" ->
         [mode |-> mode, pending |-> pending, running |-> FALSE, ta |-> r.ta]
    [] OTHER ->
         [mode |-> mode, pending |-> pending, running |-> TRUE, ta |-> r.ta]

\* main_loop with the pending key carried over a change of mode
main_loop_keeps_pending(mode, pending, r) ==
  CASE r.t[1] = "Mode" /\ r.t[2] # mode ->
         [mode |-> r.t[2], pending |-> pending, running |-> TRUE,
          ta |-> IF r.t[2] = Normal THEN constrain_cursor_for_normal_mode(r.ta) ELSE r.ta]
    [] r.t[1] = "Pending" ->
         [mode |-> mode, pending |-> r.t[2], running |-> TRUE, ta |-> r.ta]
    [] r.t[1] = "Quit" ->
         [mode |-> mode, pending |-> pending, running |-> FALSE, ta |-> r.ta]
    [] OTHER ->
         [mode |-> mode, pending |-> pending, running |-> TRUE, ta |-> r.ta]

\* main_loop with Transition::Pending leading back to Normal mode
main_loop_pending_to_normal(mode, pending, r) ==
  CASE r.t[1] = "Mode" /\ r.t[2] # mode ->
         [mode |-> r.t[2], pending |-> NoInput, running |-> TRUE,
          ta |-> IF r.t[2] = Normal THEN constrain_cursor_for_normal_mode(r.ta) ELSE r.ta]
    [] r.t[1] = "Pending" ->
         [mode |-> Normal, pending |-> r.t[2], running |-> TRUE, ta |-> r.ta]
    [] r.t[1] = "Quit" ->
         [mode |-> mode, pending |-> pending, running |-> FALSE, ta |-> r.ta]
    [] OTHER ->
         [mode |-> mode, pending |-> pending, running |-> TRUE, ta |-> r.ta]

\* the match of the event loop of main on the transition r.t: the next Vim,
\* the text area and whether the loop goes on
main_loop(mode, pending, r) ==
  CASE r.t[1] = "Mode" /\ r.t[2] # mode ->
         [mode |-> r.t[2], pending |-> NoInput, running |-> TRUE,
          ta |-> IF r.t[2] = Normal THEN constrain_cursor_for_normal_mode(r.ta) ELSE r.ta]
    [] r.t[1] = "Mode" /\ r.t[2] = mode ->
         [mode |-> mode, pending |-> pending, running |-> TRUE, ta |-> r.ta]
    [] r.t[1] = "Nop" ->
         [mode |-> mode, pending |-> pending, running |-> TRUE, ta |-> r.ta]
    [] r.t[1] = "Pending" ->
         [mode |-> mode, pending |-> r.t[2], running |-> TRUE, ta |-> r.ta]
    [] r.t[1] = "Quit" ->
         [mode |-> mode, pending |-> pending, running |-> FALSE, ta |-> r.ta]

(***************************************************************************)
(* The state machine                                                       *)
(***************************************************************************)
VARIABLES
  ta,       \* the TextArea
  mode,     \* vim.mode
  pending,  \* vim.pending
  running,  \* FALSE once the event loop has broken on Quit
  trace,    \* the key events read so far
  past      \* past[i]: the text area, mode and pending key before trace[i]

vars == <<ta, mode, pending, running, trace, past>>

\* the buffers the behaviours start from
Buffers ==
  { << <<>> >>,
    << <<"a", "b">> >>,
    << <<"a", "b">>, <<>> >>,
    << <<"a", " ", "b">>, <<"c">> >>,
    << <<"a">>, <<>>, <<"b", ".">> >> }

\* every cursor position of a buffer, one past the end of a line included
Positions(lines) ==
  UNION {{<<r, c>> : c \in 0..LineLen(lines, r)} : r \in 0..(Len(lines) - 1)}

\* the cursor positions Normal mode leaves the cursor at
NormalPositions(lines) ==
  {p \in Positions(lines) : p[2] <= Max(0, LineLen(lines, p[1]) - 1)}

\* registers a copy can have left: empty, or a span from the start of the buffer
Registers(lines) ==
  {<< <<>> >>} \cup
  {RangeText(lines, <<0, 0>>, e) : e \in Positions(lines) \ {<<0, 0>>}}

\* the viewport tops a draw can have left for a cursor row
Tops(row) == {t \in 0..row : row <= t + ViewHeight - 1}

Init ==
  /\ \E lines \in Buffers :
       \E cursor \in NormalPositions(lines) :
         \E yank \in Registers(lines) :
           \E top \in Tops(cursor[1]) :
             ta = [lines |-> lines, cursor |-> cursor, sel |-> NoSel, yank |-> yank,
                   edits |-> <<>>, hidx |-> 0, top |-> top]
  /\ mode = Normal
  /\ pending = NoInput
  /\ running = TRUE
  /\ trace = <<>>
  /\ past = <<>>

\* one iteration of the event loop: draw, read a key event, transition, match
Key(input) ==
  /\ running
  /\ \E next \in {The({main_loop(mode, pending, r) :
                        r \in {transition(mode, pending, input, render(ta))}})} :
       /\ ta' = next.ta
       /\ mode' = next.mode
       /\ pending' = next.pending
       /\ running' = next.running
  /\ trace' = Append(trace, input)
  /\ past' = Append(past, [ta |-> ta, mode |-> mode, pending |-> pending])

\* the event loop reads a key event of the set S while it runs
Press(S) == \E i \in {k \in S : running} : Key(i)

MotionKeys ==
  {Plain(k) : k \in {"h", "j", "k", "l", "w", "e", "b", "^", "$", "g", "G"}}

ScrollKeys == {Ctrl(k) : k \in {"e", "y", "d", "u", "f", "b"}}

EditKeys == {Plain(k) : k \in {"D", "x", "u"}} \cup {Ctrl("r")}

PasteKeys == {Plain("p"), Plain("P")}

InsertKeys == {Plain(k) : k \in {"C", "i", "a", "A", "o", "O", "I"}}

VisualKeys == {Plain("v"), Plain("V")}

OperatorKeys == {Plain("y"), Plain("d"), Plain("c")}

EscapeKeys == {Plain("Esc"), Ctrl("c")}

OtherKeys == {Plain("Enter"), Plain("Backspace"), Plain("Null"), Alt("g"), Ctrl("g")}

Keys ==
  MotionKeys \cup ScrollKeys \cup EditKeys \cup PasteKeys \cup InsertKeys
  \cup VisualKeys \cup OperatorKeys \cup EscapeKeys \cup OtherKeys \cup {Plain("q")}

PressMotion == Press(MotionKeys)

PressScroll == Press(ScrollKeys)

PressEdit == Press(EditKeys)

PressPaste == Press(PasteKeys)

PressInsert == Press(InsertKeys)

PressVisual == Press(VisualKeys)

PressOperator == Press(OperatorKeys)

PressEscape == Press(EscapeKeys)

PressOther == Press(OtherKeys)

PressQuit == Press({Plain("q")})

Next ==
  /\ Len(trace) < MaxSteps
  /\ \/ PressMotion
     \/ PressScroll
     \/ PressEdit
     \/ PressPaste
     \/ PressInsert
     \/ PressVisual
     \/ PressOperator
     \/ PressEscape
     \/ PressOther
     \/ PressQuit

Spec == Init /\ [][Next]_vars

\* the same loop with the key events not told apart by their arm: any key
\* of the table, MaxKeySteps times
MaxKeySteps == 2

PressKey == Press(Keys)

NextKeys == Len(trace) < MaxKeySteps /\ PressKey

SpecKeys == Init /\ [][NextKeys]_vars

(***************************************************************************)
(* The same machine driven for one more key event by the keys of the      *)
(* yank, delete, paste and visual sequences                               *)
(***************************************************************************)
MaxSeqSteps == 3

SeqMotionKeys == {Plain(k) : k \in {"j", "l", "w", "$"}}

SeqOtherKeys == {Plain("Esc"), Plain("Enter"), Plain("u")}

SeqMotion == Press(SeqMotionKeys)

SeqOperator == Press({Plain("y"), Plain("d")})

SeqPaste == Press(PasteKeys)

SeqVisual == Press(VisualKeys)

SeqOther == Press(SeqOtherKeys)

NextSeq ==
  /\ Len(trace) < MaxSeqSteps
  /\ \/ SeqMotion
     \/ SeqOperator
     \/ SeqPaste
     \/ SeqVisual
     \/ SeqOther

SpecSeq == Init /\ [][NextSeq]_vars

(***************************************************************************)
(* The same machine driven into Visual mode, through the key events it    *)
(* handles there, and out of it with Esc                                   *)
(***************************************************************************)
MaxVisualKeys == 2

\* v or V as the first key event
VisualEnter == trace = <<>> /\ Press(VisualKeys)

\* any key event but Esc, handled in Visual mode
VisualKey ==
  /\ mode = Visual
  /\ Len(trace) <= MaxVisualKeys
  /\ Press(Keys \ {Plain("Esc")})

\* Esc, handled in Visual mode
VisualEscape == mode = Visual /\ Press({Plain("Esc")})

NextVisual == VisualEnter \/ VisualKey \/ VisualEscape

SpecVisual == Init /\ [][NextVisual]_vars

TypeOK ==
  /\ Len(ta.lines) >= 1
  /\ ta.cursor \in Positions(ta.lines)
  /\ ta.sel = NoSel \/ ta.sel \in Positions(ta.lines)
  /\ Len(past) = Len(trace)
  /\ mode \in {Normal, Insert, Visual, Operator("y"), Operator("d"), Operator("c")}

(***************************************************************************)
(* Vocabulary of the properties                                            *)
(***************************************************************************)
Stepped == Len(trace) >= 1

\* the state before the last key event, and that key event
Prev == past[Len(past)]

LastKey == trace[Len(trace)]

CommandModes == {Normal, Visual, Operator("y"), Operator("d"), Operator("c")}

\* the key events whose arm in Vim::transition is a cursor motion or a scroll
IsMotionKey(pend, input) ==
  \/ input.key \in {"h", "j", "k", "l", "w", "^", "$"}
  \/ input.key \in {"e", "b"} /\ ~input.ctrl
  \/ input.key \in {"e", "y", "d", "u", "f", "b"} /\ input.ctrl
  \/ input.key = "g" /\ ~input.ctrl /\ pend.key = "g" /\ ~pend.ctrl
  \/ input.key = "G" /\ ~input.ctrl

\* the last key event was handled in a command mode as a motion
MotionDone ==
  /\ Stepped
  /\ Prev.mode \in CommandModes
  /\ IsMotionKey(Prev.pending, LastKey)

\* the cursor is on a line, and on a character of it or at column 0
CursorOnChar(t) ==
  /\ 0 <= t.cursor[1]
  /\ t.cursor[1] <= Len(t.lines) - 1
  /\ 0 <= t.cursor[2]
  /\ t.cursor[2] <= Max(0, LineLen(t.lines, t.cursor[1]) - 1)

(***************************************************************************)
(* C1                                                                      *)
(***************************************************************************)
\* C1 as stated: after every key event handled in Normal, Visual or Operator
\* mode that executes a motion, the cursor is on a line and its column is at
\* most max(0, charCount(line) - 1).
C1_AsStated == MotionDone => CursorOnChar(ta)

\* C1 amended: after every key event handled in Normal, Visual or Operator
\* mode that executes a motion, the cursor is on a line and its column is at
\* most max(0, charCount(line) - 1), except when the motion completed the
\* operator c: the mode is then Insert and the column is at most
\* charCount(line).
C1_MotionCursor ==
  MotionDone =>
    IF Prev.mode = Operator("c")
    THEN mode = Insert /\ ta.cursor \in Positions(ta.lines)
    ELSE mode # Insert /\ CursorOnChar(ta)

\* a motion in Visual mode that the constraint pulled back from past the end
C1_Witness ==
  /\ MotionDone
  /\ Prev.mode = Visual
  /\ LastKey = Plain("$")
  /\ ta.cursor[2] = LineLen(ta.lines, ta.cursor[1]) - 1
  /\ ta.cursor # Prev.ta.cursor

(***************************************************************************)
(* Key sequences                                                           *)
(***************************************************************************)
\* the last key events were ks, in this order
LastKeys(ks) ==
  /\ Len(trace) >= Len(ks)
  /\ SubSeq(trace, Len(trace) - Len(ks) + 1, Len(trace)) = ks

\* the state before the n-th last key event
Before(n) == past[Len(past) - n + 1]

\* lines without the line at 0-based row r
WithoutRow(lines, r) == Rows(lines, 0, r) \o Rows(lines, r + 1, Len(lines))

\* lines with the lines new inserted before 0-based row r
WithRowsAt(lines, r, new) == Rows(lines, 0, r) \o new \o Rows(lines, r, Len(lines))

(***************************************************************************)
(* C2, C3: the doubled delete operator                                     *)
(***************************************************************************)
\* d pressed in Normal mode, then d
DoubledDelete ==
  /\ LastKeys(<<Plain("d"), Plain("d")>>)
  /\ Before(2).mode = Normal

\* the text area before the first d, its line count and the cursor's row
DDOrig == Before(2).ta

DDCount == Len(DDOrig.lines)

DDRow == DDOrig.cursor[1]

\* the cursor's line is gone, the register holds it with one line separator,
\* the other lines are as they were
LineDeleted ==
  /\ Len(ta.lines) = DDCount - 1
  /\ yank_text(ta) = LineAt(DDOrig.lines, DDRow) \o <<"\n">>
  /\ ta.lines = WithoutRow(DDOrig.lines, DDRow)

\* C2 as stated: dd from Normal on a buffer of N > 1 lines, on every row r in
\* 0..N-1, leaves N-1 lines, the register holding line r followed by exactly
\* one line separator, and the other lines unchanged and in order.
C2_AsStated == (DoubledDelete /\ DDCount > 1) => LineDeleted

\* C2 amended: dd from Normal on a buffer of N > 1 lines, on every row r in
\* 0..N-2 (every row but the last), leaves N-1 lines, the register holding
\* line r followed by exactly one line separator, and the other lines
\* unchanged and in order.
C2_DeleteLine == (DoubledDelete /\ DDCount > 1 /\ DDRow < DDCount - 1) => LineDeleted

\* dd on the first of three lines
C2_Witness ==
  /\ DoubledDelete
  /\ DDOrig.lines = << <<"a">>, <<>>, <<"b", ".">> >>
  /\ DDRow = 0
  /\ ta.lines = << <<>>, <<"b", ".">> >>
  /\ ta.yank = << <<"a">>, <<>> >>
  /\ mode = Normal

\* C3 as stated: dd with the cursor on the last line of a buffer of N lines
\* leaves N-1 lines if N > 1 and N lines if N = 1, and the register holds the
\* last line's text with no trailing line separator.
C3_AsStated ==
  (DoubledDelete /\ DDRow = DDCount - 1) =>
    /\ Len(ta.lines) = IF DDCount > 1 THEN DDCount - 1 ELSE DDCount
    /\ yank_text(ta) = LineAt(DDOrig.lines, DDRow)

(***************************************************************************)
(* C4: yank-line, then paste-below                                         *)
(***************************************************************************)
\* y pressed in Normal mode, then y, then p
YankLinePaste ==
  /\ LastKeys(<<Plain("y"), Plain("y"), Plain("p")>>)
  /\ Before(3).mode = Normal

\* C4 as stated: y, y, p from Normal with the cursor on row r leaves line r
\* at row r, a copy of it as a new line at row r+1, and every other line
\* unchanged, the line count grown by one; on every row, the last included.
C4_AsStated ==
  YankLinePaste =>
    ta.lines = WithRowsAt(Before(3).ta.lines, Before(3).ta.cursor[1] + 1,
                          <<LineAt(Before(3).ta.lines, Before(3).ta.cursor[1])>>)

(***************************************************************************)
(* C5 .. C8: paste-above and paste-below                                   *)
(***************************************************************************)
\* the last key event was P (p), handled in Normal mode
PasteAbove == Stepped /\ LastKey.key = "P" /\ Prev.mode = Normal

PasteBelow == Stepped /\ LastKey.key = "p" /\ Prev.mode = Normal

\* the register the paste found, and its classification
PastedRegister == Prev.ta.yank

LineWise == contains_newline(join(PastedRegister))

\* the lines a LineWise register holds: a line separator at the end of the
\* register ends its last line
RegisterLines ==
  IF PastedRegister[Len(PastedRegister)] = <<>>
  THEN SubSeq(PastedRegister, 1, Len(PastedRegister) - 1)
  ELSE PastedRegister

\* the cursor's line before the paste with text inserted at column c
LineWithTextAt(c, text) ==
  SetLine(Prev.ta.lines, Prev.ta.cursor[1],
          Slice(CurLine(Prev.ta), 0, c) \o text
          \o Slice(CurLine(Prev.ta), c, Len(CurLine(Prev.ta))))

\* C5 as stated: P with a LineWise register inserts the register's lines as
\* whole new lines immediately before the cursor's line and leaves the
\* cursor's line and every other line unchanged.
C5_AsStated ==
  (PasteAbove /\ LineWise) =>
    ta.lines = WithRowsAt(Prev.ta.lines, Prev.ta.cursor[1], RegisterLines)

\* C6 as stated: p with a LineWise register inserts the register's lines as
\* whole new lines immediately after the cursor's line and leaves the
\* cursor's line and every other line unchanged.
C6_AsStated ==
  (PasteBelow /\ LineWise) =>
    ta.lines = WithRowsAt(Prev.ta.lines, Prev.ta.cursor[1] + 1, RegisterLines)

\* C7 as stated: P in Normal mode with a CharacterWise register T at column
\* c of a line pre turns the line into pre[0..c] + T + pre[c..], no other
\* line changed and the line count unchanged.
C7_AsStated ==
  (PasteAbove /\ ~LineWise) =>
    ta.lines = LineWithTextAt(Prev.ta.cursor[2], PastedRegister[1])

\* C8 as stated: p in Normal mode with a CharacterWise register T at column
\* c of a line pre turns the line into pre[0..c+1] + T + pre[c+1..], no
\* other line changed and the line count unchanged, at every cursor
\* position that is legal in Normal mode.
C8_AsStated ==
  (PasteBelow /\ ~LineWise) =>
    ta.lines = LineWithTextAt(Min(Prev.ta.cursor[2] + 1, Len(CurLine(Prev.ta))),
                              PastedRegister[1])

(***************************************************************************)
(* C9: Escape from Visual mode                                             *)
(***************************************************************************)
\* the i-th key event entered Visual mode from Normal, and every key event
\* since was handled in Visual mode
VisualSince(i) ==
  /\ past[i].mode = Normal
  /\ trace[i] \in VisualKeys
  /\ \A j \in (i + 1)..Len(past) : past[j].mode = Visual

\* C9: when Visual mode is entered from Normal with v or V, stays through
\* any number of key events and then receives Esc, the mode is Normal, no
\* selection is active and the lines are those from before Visual was entered.
C9_EscapeRestores ==
  (Stepped /\ LastKey = Plain("Esc")) =>
    \A i \in 1..(Len(trace) - 1) :
      VisualSince(i) =>
        /\ mode = Normal
        /\ ta.sel = NoSel
        /\ ta.lines = past[i].ta.lines

\* V, a motion that moved the cursor in Visual mode, then Esc
C9_Witness ==
  /\ Len(trace) = 3
  /\ VisualSince(1)
  /\ trace[1] = Plain("V")
  /\ LastKey = Plain("Esc")
  /\ past[3].ta.cursor # past[2].ta.cursor
  /\ past[3].ta.sel # NoSel
  /\ mode = Normal
  /\ ta.sel = NoSel

(***************************************************************************)
(* C10: leaving Operator mode                                              *)
(***************************************************************************)
\* the key events whose arm returns a mode whatever the mode is
IsModeKey(input) ==
  \/ input.key \in {"D", "C", "p", "P", "x", "i", "a", "A", "o", "O", "I"}
  \/ input.key = "u" /\ ~input.ctrl
  \/ input.key = "r" /\ input.ctrl

\* the key events that complete or abandon the operator of mode m
EndsOperator(m, pend, input) ==
  /\ input.key # "Null"
  /\ \/ IsMotionKey(pend, input)
     \/ IsModeKey(input)
     \/ IsChar(input.key) /\ ~input.ctrl /\ m = Operator(input.key)

\* C10 as stated: once the mode is Operator(op), the mode is Normal or
\* Insert after the very next key event, whatever that key is.
C10_AsStated == (Stepped /\ IsOperator(Prev.mode)) => mode \in {Normal, Insert}

\* C10 amended: once the mode is Operator(op), the mode is Normal or Insert
\* after the very next key event if that key is a motion or a scroll, the
\* operator's own character, or one of D, C, p, P, x, u, Ctrl-r, i, a, A, o,
\* O, I; after any other key event (Esc, Enter, v, V, a first g, another
\* operator's character, a key not in the table, Null, q) the mode is still
\* Operator(op).
C10_OperatorEnds ==
  (Stepped /\ IsOperator(Prev.mode)) =>
    IF EndsOperator(Prev.mode, Prev.pending, LastKey)
    THEN mode \in {Normal, Insert}
    ELSE mode = Prev.mode

\* y, then a motion that completed the yank
C10_Witness ==
  /\ LastKeys(<<Plain("y"), Plain("w")>>)
  /\ Prev.mode = Operator("y")
  /\ mode = Normal
  /\ ta.yank # Prev.ta.yank
  /\ ta.sel = NoSel

(***************************************************************************)
(* C11: entering Operator mode                                             *)
(***************************************************************************)
\* C11: the mode becomes Operator(op) only by one key event handled in
\* Normal mode, a y, d or c without ctrl, op being that key; it is never
\* entered from Insert, Visual or another Operator mode, and in every state
\* with mode Operator(op), op is y, d or c.
C11_OperatorEntry ==
  /\ IsOperator(mode) => mode[2] \in {"y", "d", "c"}
  /\ (Stepped /\ IsOperator(mode) /\ mode # Prev.mode) =>
       /\ Prev.mode = Normal
       /\ LastKey.key \in {"y", "d", "c"}
       /\ ~LastKey.ctrl
       /\ mode = Operator(LastKey.key)

\* c pressed in Normal mode, after a key event that left Normal mode as it was
C11_Witness ==
  /\ Len(trace) = 2
  /\ LastKey = Plain("c")
  /\ Prev.mode = Normal
  /\ mode = Operator("c")
  /\ ta.sel = ta.cursor

(***************************************************************************)
(* C12, C13: the pending key                                               *)
(***************************************************************************)
\* the key events that match an arm of the command table in mode m, the
\* arm of the unmatched keys apart
Matched(m, pend, input) ==
  \/ IsMotionKey(pend, input)
  \/ IsModeKey(input)
  \/ input.key = "q"
  \/ input.key \in {"v", "V"} /\ ~input.ctrl /\ m = Normal
  \/ (input.key = "Esc" \/ (input.key = "v" /\ ~input.ctrl)) /\ m = Visual
  \/ IsChar(input.key) /\ ~input.ctrl /\ m = Operator(input.key)
  \/ input.key \in {"y", "d", "c"} /\ ~input.ctrl /\ m \in {Normal, Visual}

\* the last key event was handled in a command mode as a command
CommandDone ==
  /\ Stepped
  /\ Prev.mode \in CommandModes
  /\ LastKey.key # "Null"
  /\ Matched(Prev.mode, Prev.pending, LastKey)

\* C12 as stated: after every key event that is processed as a command
\* rather than stored as pending, the second g of gg included, no key is
\* pending; a g followed by another command key is not left pending.
C12_AsStated == CommandDone => pending = NoInput

\* C13: whenever a key event changes the mode, no key is pending in the
\* resulting state: a key left pending in one mode is never seen in another.
C13_ModeChangeClearsPending == (Stepped /\ mode # Prev.mode) => pending = NoInput

\* g left pending in Normal mode, then i
C13_Witness ==
  /\ LastKeys(<<Plain("g"), Plain("i")>>)
  /\ Prev.mode = Normal
  /\ Prev.pending = Plain("g")
  /\ mode = Insert
  /\ pending = NoInput

(***************************************************************************)
(* C14: an operator and a motion                                           *)
(***************************************************************************)
\* the last key event was a motion handled in Operator mode
OperatorMotion == MotionDone /\ IsOperator(Prev.mode)

\* the selection from the operator's anchor to position e was copied: the
\* register holds its text, or is as it was if the selection is empty
CopiedTo(e) ==
  IF e = Prev.ta.sel THEN ta.yank = Prev.ta.yank
  ELSE IF PosLess(Prev.ta.sel, e)
  THEN ta.yank = RangeText(Prev.ta.lines, Prev.ta.sel, e)
  ELSE ta.yank = RangeText(Prev.ta.lines, e, Prev.ta.sel)

\* the selection from the operator's anchor to position e was removed from
\* the lines
RemovedTo(e) ==
  IF e = Prev.ta.sel THEN ta.lines = Prev.ta.lines
  ELSE IF PosLess(Prev.ta.sel, e)
  THEN ta.lines = RangeRemoved(Prev.ta.lines, Prev.ta.sel, e)
  ELSE ta.lines = RangeRemoved(Prev.ta.lines, e, Prev.ta.sel)

\* C14: a motion key handled in mode Operator(op) applies the operator in
\* that same key event: for y the selection (from the operator's anchor to
\* where the motion left the cursor) is copied and the mode is Normal; for d
\* it is cut and the mode is Normal; for c it is cut and the mode is Insert.
\* The mode is never Operator(op) after a motion key.
C14_OperatorApplied ==
  OperatorMotion =>
    /\ ~IsOperator(mode)
    /\ ta.sel = NoSel
    /\ Prev.ta.sel \in Positions(Prev.ta.lines)
    /\ Prev.mode = Operator("y") =>
         /\ mode = Normal
         /\ ta.lines = Prev.ta.lines
         /\ CopiedTo(ta.cursor)
    /\ Prev.mode = Operator("d") =>
         /\ mode = Normal
         /\ \E e \in Positions(Prev.ta.lines) : CopiedTo(e) /\ RemovedTo(e)
    /\ Prev.mode = Operator("c") =>
         /\ mode = Insert
         /\ \E e \in Positions(Prev.ta.lines) : CopiedTo(e) /\ RemovedTo(e)

\* d, then a motion that moved the cursor: the text between is cut
C14_Witness ==
  /\ OperatorMotion
  /\ Prev.mode = Operator("d")
  /\ LastKey = Plain("w")
  /\ mode = Normal
  /\ ta.lines # Prev.ta.lines
  /\ ta.yank # Prev.ta.yank

(***************************************************************************)
(* C15: unmatched keys                                                     *)
(***************************************************************************)
\* the last key event was handled in a command mode and matched no command
UnmatchedDone ==
  /\ Stepped
  /\ Prev.mode \in CommandModes
  /\ LastKey.key # "Null"
  /\ ~Matched(Prev.mode, Prev.pending, LastKey)

\* C15: in Normal, Visual or Operator mode a key that matches no command
\* becomes the pending key and nothing else changes: mode, lines, cursor,
\* selection and register are as before; and for every key in every mode the
\* handler yields one of the four transitions, never an error.
C15_UnmatchedPending ==
  /\ UnmatchedDone =>
       /\ pending = LastKey
       /\ running
       /\ mode = Prev.mode
       /\ ta.lines = Prev.ta.lines
       /\ ta.cursor = Prev.ta.cursor
       /\ ta.sel = Prev.ta.sel
       /\ ta.yank = Prev.ta.yank
  /\ Stepped =>
       transition(Prev.mode, Prev.pending, LastKey, render(Prev.ta)).t[1]
         \in {"Nop", "Mode", "Pending", "Quit"}

\* Esc in Operator mode: it becomes pending, the operator's selection stays
C15_Witness ==
  /\ UnmatchedDone
  /\ Prev.mode = Operator("d")
  /\ LastKey = Plain("Esc")
  /\ pending = Plain("Esc")
  /\ mode = Operator("d")
  /\ ta.sel = Prev.ta.sel
  /\ ta.sel # NoSel

(***************************************************************************)
(* C16: Insert mode                                                        *)
(***************************************************************************)
\* the last key event was handled in Insert mode
InsertKeyDone == Stepped /\ Prev.mode = Insert

\* Escape, or Ctrl-c
IsEscape(input) == input.key = "Esc" \/ (input.key = "c" /\ input.ctrl)

\* C16: in Insert mode every key event other than Escape or Ctrl-c is handed
\* to the buffer's default text input and the mode stays Insert (a character
\* without ctrl or alt is inserted at the cursor); Escape and Ctrl-c make the
\* mode Normal, hand nothing to the buffer and leave its lines as they were.
C16_InsertKeys ==
  InsertKeyDone =>
    IF IsEscape(LastKey)
    THEN /\ mode = Normal
         /\ ta.lines = Prev.ta.lines
         /\ ta.yank = Prev.ta.yank
         /\ ta.edits = Prev.ta.edits
         /\ ta.hidx = Prev.ta.hidx
    ELSE /\ mode = Insert
         /\ ta = input_default(LastKey, render(Prev.ta))
         /\ (IsChar(LastKey.key) /\ ~LastKey.ctrl /\ ~LastKey.alt) =>
              /\ ta.lines = LineWithTextAt(Prev.ta.cursor[2], <<LastKey.key>>)
              /\ ta.cursor = <<Prev.ta.cursor[1], Prev.ta.cursor[2] + 1>>

\* a, then a character typed after the character the cursor was on
C16_Witness ==
  /\ InsertKeyDone
  /\ LastKeys(<<Plain("a"), Plain("q")>>)
  /\ Prev.ta.cursor[2] = 1
  /\ mode = Insert
  /\ Len(CurLine(ta)) = Len(CurLine(Prev.ta)) + 1
  /\ CurLine(ta)[2] = "q"

(***************************************************************************)
(* C17: the two-key sequence gg                                            *)
(***************************************************************************)
\* the last key event was a g handled in a command mode
GKeyDone == Stepped /\ Prev.mode \in CommandModes /\ LastKey.key = "g"

NoModifiers(input) == ~input.ctrl /\ ~input.alt /\ ~input.shift

\* C17 as stated: gg is recognized only when the pending key is g and the
\* new key is g, both with no ctrl, no alt and no shift; with any modifier
\* on either key the cursor is not moved to the top.
C17_AsStated ==
  (GKeyDone /\ ~(/\ Prev.pending.key = "g"
                 /\ NoModifiers(Prev.pending)
                 /\ NoModifiers(LastKey))) =>
    ta.cursor = Prev.ta.cursor

\* C17 amended: gg is recognized, and the cursor taken to the first line,
\* exactly when the pending key is g and the new key is g, both without
\* ctrl; alt and shift are not examined. Otherwise the g becomes the pending
\* key and the cursor is not moved.
C17_GoToTop ==
  GKeyDone =>
    IF ~LastKey.ctrl /\ Prev.pending.key = "g" /\ ~Prev.pending.ctrl
    THEN ta.cursor[1] = 0
    ELSE /\ ta.cursor = Prev.ta.cursor
         /\ pending = LastKey
         /\ mode = Prev.mode

\* g, then g with alt, from below the first line
C17_Witness ==
  /\ GKeyDone
  /\ LastKeys(<<Plain("g"), Alt("g")>>)
  /\ Prev.mode = Normal
  /\ Prev.ta.cursor[1] = 2
  /\ ta.cursor[1] = 0

(***************************************************************************)
(* C18: leaving Visual mode                                                *)
(***************************************************************************)
\* C18 as stated: in Visual mode Escape, and the key that entered Visual
\* mode pressed again (v or V), cancel the selection and make the mode
\* Normal in that same key event.
C18_AsStated ==
  Stepped =>
    \A i \in 1..(Len(trace) - 1) :
      (VisualSince(i) /\ (LastKey = Plain("Esc") \/ LastKey = trace[i])) =>
        /\ mode = Normal
        /\ ta.sel = NoSel

(***************************************************************************)
(* C19: Quit                                                               *)
(***************************************************************************)
\* C19: q handled in Normal mode, whatever key is pending, ends the event
\* loop and leaves the buffer as it was; no key event handled in Insert
\* mode ends the loop, and there a q is inserted as text.
C19_Quit ==
  /\ (Stepped /\ LastKey.key = "q" /\ Prev.mode = Normal) =>
       /\ ~running
       /\ ta.lines = Prev.ta.lines
       /\ ta.cursor = Prev.ta.cursor
       /\ ta.yank = Prev.ta.yank
  /\ (Stepped /\ ~running) => (LastKey.key = "q" /\ Prev.mode \in CommandModes)
  /\ InsertKeyDone => running
  /\ (InsertKeyDone /\ LastKey = Plain("q")) =>
       ta.lines = LineWithTextAt(Prev.ta.cursor[2], <<"q">>)

\* q with g pending in Normal mode
C19_Witness ==
  /\ LastKeys(<<Plain("g"), Plain("q")>>)
  /\ Prev.mode = Normal
  /\ Prev.pending = Plain("g")
  /\ ~running
  /\ ta.lines = Prev.ta.lines

(***************************************************************************)
(* C20: paste and the register                                             *)
(***************************************************************************)
\* the last key event was p or P, handled in a command mode
PasteDone == Stepped /\ LastKey.key \in {"p", "P"} /\ Prev.mode \in CommandModes

\* C20: p and P never change the register: after p or P handled in Normal,
\* Visual or Operator mode, with a CharacterWise or a LineWise register, the
\* register holds what it held before the key.
C20_PasteKeepsRegister == PasteDone => ta.yank = Prev.ta.yank

\* p over the selection of a whole line: the line is replaced, the register kept
C20_Witness ==
  /\ PasteDone
  /\ LastKeys(<<Plain("V"), Plain("p")>>)
  /\ Prev.mode = Visual
  /\ Prev.ta.sel # Prev.ta.cursor
  /\ LineWise
  /\ ta.lines # Prev.ta.lines
  /\ ta.yank = Prev.ta.yank

(***************************************************************************)
(* C21: constrain_cursor_for_normal_mode as a function of the text area    *)
(***************************************************************************)
\* applications of constrain_cursor_for_normal_mode in a row
MaxApply == 2

\* the length of a line whose last column does not fit in a u16
LongLen == 65537

\* a file of one line of LongLen characters
LongBuffer == << [i \in 1..LongLen |-> "a"] >>

\* text areas the event loop hands to constrain_cursor_for_normal_mode when
\* Insert mode is left: a buffer read from a file, the cursor anywhere Insert
\* mode can leave it
ConstrainInputs ==
  UNION {{[lines |-> lines, cursor |-> cursor, sel |-> NoSel, yank |-> yank,
           edits |-> <<>>, hidx |-> 0, top |-> top] :
            cursor \in Positions(lines), yank \in Registers(lines),
            top \in Tops(0)} : lines \in Buffers}

\* the same for the file of one long line
LongInputs ==
  {[lines |-> LongBuffer, cursor |-> <<0, c>>, sel |-> NoSel,
    yank |-> << <<>> >>, edits |-> <<>>, hidx |-> 0, top |-> 0] :
     c \in {0, LongLen - 1, LongLen}}

\* a file of LongLen lines, all empty but the last
LongFile == [i \in 1..LongLen |-> IF i = LongLen THEN <<"a", "b">> ELSE <<>>]

\* the text areas of the long file, the cursor on its first or last line
LongFileInputs ==
  {[lines |-> LongFile, cursor |-> cursor, sel |-> NoSel,
    yank |-> << <<>> >>, edits |-> <<>>, hidx |-> 0, top |-> cursor[1]] :
     cursor \in {<<0, 0>>, <<LongLen - 1, 1>>, <<LongLen - 1, 2>>}}

\* the text area main builds from the lines of a file: the cursor at (0, 0),
\* nothing selected, the register empty
StartUp(lines) ==
  [lines |-> lines, cursor |-> <<0, 0>>, sel |-> NoSel, yank |-> << <<>> >>,
   edits |-> <<>>, hidx |-> 0, top |-> 0]

\* the two places where main calls constrain_cursor_for_normal_mode: at
\* start-up, the mode Normal and the text area as built from the file; and
\* in the event loop when Insert mode is left, vim.mode still Insert and the
\* cursor anywhere Insert mode can leave it
InitConstrain ==
  /\ \/ mode = Normal /\ \E lines \in Buffers : ta = StartUp(lines)
     \/ mode = Normal /\ ta = StartUp(LongBuffer)
     \/ mode = Normal /\ ta = StartUp(LongFile)
     \/ mode = Insert /\ ta \in ConstrainInputs
     \/ mode = Insert /\ ta \in LongInputs
     \/ mode = Insert /\ ta \in LongFileInputs
  /\ pending = NoInput
  /\ running = TRUE
  /\ trace = <<>>
  /\ past = <<>>

\* one call of constrain_cursor_for_normal_mode(&mut textarea)
Constrain ==
  /\ Len(trace) < MaxApply
  /\ ta' = constrain_cursor_for_normal_mode(ta)
  /\ trace' = Append(trace, NoInput)
  /\ past' = Append(past, [ta |-> ta, mode |-> mode, pending |-> pending])
  /\ UNCHANGED <<mode, pending, running>>

NextConstrain == Constrain

SpecConstrain == InitConstrain /\ [][NextConstrain]_vars

\* the cursor the contract of constrain_cursor_for_normal_mode names for t
ClampedCursor(t) ==
  The({<<row, Min(t.cursor[2], Max(0, LineLen(t.lines, row) - 1))>> :
         row \in {Min(t.cursor[1], Len(t.lines) - 1)}})

\* C21 as stated: constrain_cursor_for_normal_mode maps the cursor (row, col)
\* of a buffer with at least one line to (min(row, lineCount - 1),
\* min(col, max(0, charCount(line) - 1))), line being the line at the clamped
\* row; it repositions the cursor only when this differs from the current
\* cursor, and applying it twice gives the same cursor as applying it once.
C21_AsStated ==
  /\ constrain_cursor_for_normal_mode(ta).cursor = ClampedCursor(ta)
  /\ ClampedCursor(ta) = ta.cursor => constrain_cursor_for_normal_mode(ta) = ta
  /\ constrain_cursor_for_normal_mode(constrain_cursor_for_normal_mode(ta)).cursor
       = constrain_cursor_for_normal_mode(ta).cursor

(***************************************************************************)
(* C22                                                                     *)
(***************************************************************************)
\* C22 as stated: in every reachable state between key events in which the
\* mode is Normal, Visual or Operator, the cursor is not one past the end of
\* its line: column <= max(0, charCount(line[row]) - 1), immediately after
\* entering Visual with v or V and after returning to Normal from Insert
\* included.
C22_AsStated == mode \in CommandModes => CursorOnChar(ta)

(***************************************************************************)
(* The copy, paste and cut tests: a selection made forward from the        *)
(* cursor, copied and pasted at another position, or cut.  trace holds the *)
(* names of the TextArea calls made so far.                                *)
(***************************************************************************)
\* calls of move_cursor(CursorMove::Forward) that extend the selection
MaxForward == 2

\* the text areas the tests start from: a text, the cursor where the
\* selection is to start, nothing selected
TestInputs ==
  UNION {{[lines |-> lines, cursor |-> cursor, sel |-> NoSel, yank |-> yank,
           edits |-> <<>>, hidx |-> 0, top |-> 0] :
            cursor \in Positions(lines), yank \in Registers(lines)} :
               lines \in Buffers}

InitTest ==
  /\ ta \in TestInputs
  /\ mode = Insert
  /\ pending = NoInput
  /\ running = TRUE
  /\ trace = <<>>
  /\ past = <<>>

\* the call named call has led from ta to the text area t
Called(call, t) ==
  /\ ta' = t
  /\ trace' = Append(trace, call)
  /\ past' = Append(past, [ta |-> ta, mode |-> mode, pending |-> pending])
  /\ UNCHANGED <<mode, pending, running>>

\* the calls made so far are start_selection and Forward calls
Selecting == trace # <<>> /\ \A i \in 2..Len(trace) : trace[i] = "Forward"

TestStartSelection == trace = <<>> /\ Called("start_selection", start_selection(ta))

TestForward ==
  /\ Selecting
  /\ Len(trace) <= MaxForward
  /\ Called("Forward", move_cursor(Forward(ta), ta))

\* TestCopy cutting the selection
TestCopyCuts == Selecting /\ Len(trace) >= 2 /\ Called("copy", cut(ta))

TestCopy == Selecting /\ Len(trace) >= 2 /\ Called("copy", copy(ta))

\* TestCut copying the selection
TestCutCopies == Selecting /\ Len(trace) >= 2 /\ Called("cut", copy(ta))

TestCut == Selecting /\ Len(trace) >= 2 /\ Called("cut", cut(ta))

\* the move to the place of the paste: End, Bottom or Jump(row, col)
TestJump ==
  /\ trace # <<>>
  /\ trace[Len(trace)] = "copy"
  /\ \E p \in Positions(ta.lines) : Called("Jump", move_cursor(Jump(p[1], p[2], ta), ta))

TestPaste ==
  /\ trace # <<>>
  /\ trace[Len(trace)] = "Jump"
  /\ Called("paste", paste(ta))

NextTest ==
  \/ TestStartSelection
  \/ TestForward
  \/ TestCopy
  \/ TestCut
  \/ TestJump
  \/ TestPaste

SpecTest == InitTest /\ [][NextTest]_vars

\* the last call made was call
LastCall(call) == trace # <<>> /\ trace[Len(trace)] = call

\* the text area when start_selection was called, and its cursor
Anchored == past[1].ta

\* the text area at the end of the Forward calls
Selected == past[Len(SelectSeq(trace, LAMBDA c : c \in {"start_selection", "Forward"})) + 1].ta

\* the selection lies in one line, from the anchor forward to the cursor
SameLineSelection ==
  /\ Selected.sel = Anchored.cursor
  /\ Selected.cursor[1] = Selected.sel[1]
  /\ Selected.cursor[2] > Selected.sel[2]

\* the characters of the selection
SelectedChars ==
  Slice(LineAt(Selected.lines, Selected.sel[1]), Selected.sel[2], Selected.cursor[2])

\* line with the characters chars inserted before column c
InsertedAt(line, c, chars) == Slice(line, 0, c) \o chars \o Slice(line, c, Len(line))

(***************************************************************************)
(* C23                                                                     *)
(***************************************************************************)
\* C23: copying a same-line selection (anchor at column a, cursor moved
\* forward to column b > a) and pasting it at another position inserts
\* exactly the b - a selected characters at that position and nothing else:
\* the copy leaves the buffer unchanged, the register is the selected
\* characters, the target line grows by b - a and every other line is as it
\* was.
C23_CopyPaste ==
  (LastCall("paste") /\ SameLineSelection) =>
    /\ Before(2).ta.lines = Selected.lines
    /\ Before(2).ta.yank = <<SelectedChars>>
    /\ ta.yank = <<SelectedChars>>
    /\ Len(SelectedChars) = Selected.cursor[2] - Selected.sel[2]
    /\ Len(ta.lines) = Len(Selected.lines)
    /\ \A r \in 0..(Len(ta.lines) - 1) :
         LineAt(ta.lines, r) =
           IF r = Before(1).ta.cursor[1]
           THEN InsertedAt(LineAt(Selected.lines, r), Before(1).ta.cursor[2], SelectedChars)
           ELSE LineAt(Selected.lines, r)
    /\ LineLen(ta.lines, Before(1).ta.cursor[1])
         = LineLen(Selected.lines, Before(1).ta.cursor[1]) + Len(SelectedChars)

\* two characters copied from one line and pasted into another
C23_Witness ==
  /\ LastCall("paste")
  /\ SameLineSelection
  /\ Len(SelectedChars) = 2
  /\ Before(1).ta.cursor[1] # Selected.cursor[1]
  /\ ta.lines # Selected.lines

(***************************************************************************)
(* C24                                                                     *)
(***************************************************************************)
\* C24: cutting a same-line selection (anchor at column a, cursor at column
\* b > a) removes exactly the characters [a, b) from that line, leaves the
\* rest of the line and all other lines unchanged, and stores the removed
\* characters in the register.
C24_Cut ==
  (LastCall("cut") /\ SameLineSelection) =>
    /\ ta.yank = <<SelectedChars>>
    /\ Len(ta.lines) = Len(Selected.lines)
    /\ \A r \in 0..(Len(ta.lines) - 1) :
         LineAt(ta.lines, r) =
           IF r = Selected.sel[1]
           THEN Slice(LineAt(Selected.lines, r), 0, Selected.sel[2])
                \o Slice(LineAt(Selected.lines, r), Selected.cursor[2],
                         LineLen(Selected.lines, r))
           ELSE LineAt(Selected.lines, r)

\* one character cut out of the middle of a line of a buffer of two lines
C24_Witness ==
  /\ LastCall("cut")
  /\ SameLineSelection
  /\ Selected.sel[2] = 1
  /\ Selected.cursor[2] = 2
  /\ LineLen(Selected.lines, Selected.sel[1]) = 3
  /\ LineLen(ta.lines, Selected.sel[1]) = 2
  /\ Len(ta.lines) = 2

(***************************************************************************)
(* C25                                                                     *)
(***************************************************************************)
\* the last key event was y in Visual mode, the anchor and the cursor on one
\* line, the cursor on a character at or after the anchor
VisualYankDone ==
  /\ Stepped
  /\ Prev.mode = Visual
  /\ LastKey = Plain("y")
  /\ Prev.ta.sel # NoSel
  /\ Prev.ta.sel[1] = Prev.ta.cursor[1]
  /\ Prev.ta.sel[2] <= Prev.ta.cursor[2]
  /\ Prev.ta.cursor[2] < LineLen(Prev.ta.lines, Prev.ta.cursor[1])

\* C25 as stated: in Visual mode the selection acted on by y, d and c
\* includes the character under the cursor: with the anchor at column a and
\* the cursor at column b >= a on the same line, y stores the characters a
\* through b inclusive in the register (b - a + 1 characters).
C25_AsStated ==
  VisualYankDone =>
    ta.yank = <<Slice(LineAt(Prev.ta.lines, Prev.ta.cursor[1]),
                      Prev.ta.sel[2], Prev.ta.cursor[2] + 1)>>

(***************************************************************************)
(* C26                                                                     *)
(***************************************************************************)
\* the last key event was the motion e handled in Operator mode, and the
\* word-end move lands on a character
OperatorWordEnd ==
  /\ Stepped
  /\ IsOperator(Prev.mode)
  /\ LastKey = Plain("e")
  /\ Prev.ta.sel = Prev.ta.cursor
  /\ WordEnd(Prev.ta)[2] < LineLen(Prev.ta.lines, WordEnd(Prev.ta)[1])

\* the position after the character the word-end move lands on
AfterWordEnd == <<WordEnd(Prev.ta)[1], WordEnd(Prev.ta)[2] + 1>>

\* C26 as stated: in Operator mode the motion e makes the operator act on a
\* span that includes the character at the end of the word (the character
\* the cursor lands on after the word-end move), for every word position, a
\* word whose last character is the last character of its line included.
C26_AsStated ==
  OperatorWordEnd =>
    /\ CopiedTo(AfterWordEnd)
    /\ IF Prev.mode = Operator("y") THEN ta.lines = Prev.ta.lines
       ELSE RemovedTo(AfterWordEnd)

(***************************************************************************)
(* C27                                                                     *)
(***************************************************************************)
\* the last key event was $ handled in mode Operator(d)
DeleteToEndDone ==
  /\ Stepped
  /\ Prev.mode = Operator("d")
  /\ LastKey = Plain("$")
  /\ LineLen(Prev.ta.lines, Prev.ta.cursor[1]) >= 1

\* the line the cursor was on before the last key event
PrevLine == LineAt(Prev.ta.lines, Prev.ta.cursor[1])

\* C27: operator d followed by $ with the cursor at column c of a line of
\* L >= 1 characters removes exactly the characters [c, L - 1) and keeps the
\* line's last character, the cursor being normalized to column L - 1 before
\* the cut; when c = L - 1 nothing is removed and the register is not
\* overwritten.
C27_DeleteToEnd ==
  DeleteToEndDone =>
    /\ mode = Normal
    /\ Len(ta.lines) = Len(Prev.ta.lines)
    /\ \A r \in 0..(Len(ta.lines) - 1) :
         LineAt(ta.lines, r) =
           IF r = Prev.ta.cursor[1]
           THEN Slice(PrevLine, 0, Prev.ta.cursor[2])
                \o Slice(PrevLine, Len(PrevLine) - 1, Len(PrevLine))
           ELSE LineAt(Prev.ta.lines, r)
    /\ ta.yank = IF Prev.ta.cursor[2] = Len(PrevLine) - 1 THEN Prev.ta.yank
                 ELSE <<Slice(PrevLine, Prev.ta.cursor[2], Len(PrevLine) - 1)>>

\* d, $ at the start of a line of three characters: two are removed, the
\* last one stays
C27_Witness ==
  /\ DeleteToEndDone
  /\ Prev.ta.cursor[2] = 0
  /\ Len(PrevLine) = 3
  /\ LineLen(ta.lines, Prev.ta.cursor[1]) = 1
  /\ Len(ta.yank[1]) = 2

(***************************************************************************)
(* C28                                                                     *)
(***************************************************************************)
\* d, d pressed from Normal mode, then P
DeleteLinePasteAbove ==
  /\ LastKeys(<<Plain("d"), Plain("d"), Plain("P")>>)
  /\ Before(3).mode = Normal

\* the text area before the first d
DDPOrig == Before(3).ta

\* the cursor's line was not empty, or was not the last line
DDPLineRemovable ==
  \/ LineLen(DDPOrig.lines, DDPOrig.cursor[1]) > 0
  \/ DDPOrig.cursor[1] < Len(DDPOrig.lines) - 1

\* C28: from Normal mode, d, d followed by P restores the buffer's lines
\* exactly to what they were before the first d, for every buffer and every
\* cursor row whose line is non-empty or is not the last line.
C28_DeletePasteRestores ==
  (DeleteLinePasteAbove /\ DDPLineRemovable) => ta.lines = DDPOrig.lines

\* d, d, P on the middle line of three: the line was gone after d, d and is
\* back after P
C28_Witness ==
  /\ DeleteLinePasteAbove
  /\ Len(DDPOrig.lines) = 3
  /\ DDPOrig.cursor[1] = 1
  /\ Len(Prev.ta.lines) = 2
  /\ Len(ta.lines) = 3

(***************************************************************************)
(* C29                                                                     *)
(***************************************************************************)
\* the last key event led from Normal mode into Visual or Operator mode
SelectingModeEntered ==
  /\ Stepped
  /\ Prev.mode = Normal
  /\ mode = Visual \/ IsOperator(mode)

\* C29: in every reachable state between key events in which the mode is
\* Visual or Operator(op), the buffer has an active selection anchor: it is
\* started on entry (at the cursor for v and for y, d, c, at the line start
\* for V) and no key that leaves the mode unchanged cancels it.
C29_SelectionAnchored ==
  /\ (mode = Visual \/ IsOperator(mode)) => ta.sel \in Positions(ta.lines)
  /\ SelectingModeEntered =>
       ta.sel = IF LastKey.key = "V" THEN <<Prev.ta.cursor[1], 0>> ELSE Prev.ta.cursor
  /\ (Stepped /\ mode = Prev.mode /\ (mode = Visual \/ IsOperator(mode))) =>
       ta.sel = Prev.ta.sel

\* Visual mode entered with V in the middle of a line, then a motion: the
\* anchor is still at the start of the line
C29_Witness ==
  /\ Len(trace) = 2
  /\ trace[1] = Plain("V")
  /\ past[1].ta.cursor[2] > 0
  /\ IsMotionKey(Prev.pending, LastKey)
  /\ mode = Visual
  /\ ta.cursor # Prev.ta.cursor
  /\ ta.sel = <<past[1].ta.cursor[1], 0>>

(***************************************************************************)
(* C30                                                                     *)
(***************************************************************************)
\* C30 as stated: in every reachable state between key events in which the
\* mode is Normal, the buffer has no active selection: every transition into
\* Normal from Visual or Operator mode (Escape, v, y, d, motion completion,
\* D, p, P, u, Ctrl-r, x) leaves the selection cancelled or consumed.
C30_AsStated == mode = Normal => ta.sel = NoSel

(***************************************************************************)
(* C31                                                                     *)
(***************************************************************************)
\* the last key event was Escape handled in Operator mode
OperatorEscapeDone ==
  /\ Stepped
  /\ IsOperator(Prev.mode)
  /\ LastKey.key = "Esc"

\* C31: Escape does not cancel a pending operator: in mode Operator(op) an
\* Escape key yields Pending(Escape) and the mode stays Operator(op), with
\* its selection anchor, the buffer, the cursor and the register unchanged.
C31_EscapeKeepsOperator ==
  OperatorEscapeDone =>
    /\ transition(Prev.mode, Prev.pending, LastKey, render(Prev.ta)).t = Pending(LastKey)
    /\ pending = LastKey
    /\ running
    /\ mode = Prev.mode
    /\ ta.sel = Prev.ta.sel
    /\ ta.sel \in Positions(ta.lines)
    /\ ta.lines = Prev.ta.lines
    /\ ta.cursor = Prev.ta.cursor
    /\ ta.yank = Prev.ta.yank

\* c, then Escape away from the start of a line with a register to lose:
\* the operator c is still pending
C31_Witness ==
  /\ OperatorEscapeDone
  /\ mode = Operator("c")
  /\ pending = Plain("Esc")
  /\ ta.sel = ta.cursor
  /\ ta.cursor[2] > 0
  /\ ta.yank # << <<>> >>

(***************************************************************************)
(* C32                                                                     *)
(***************************************************************************)
\* C32 as stated: cursor normalization never changes the cursor's row when
\* that row is already a valid line index, it only lowers the column; for
\* every buffer size, buffers of more than 65,535 lines and lines of more
\* than 65,535 characters included, the reposition target being passed as
\* 16-bit unsigned values.
C32_AsStated ==
  ta.cursor[1] <= Len(ta.lines) - 1 =>
    /\ constrain_cursor_for_normal_mode(ta).cursor[1] = ta.cursor[1]
    /\ constrain_cursor_for_normal_mode(ta).cursor[2] <= ta.cursor[2]

====
